---- MODULE Spec2Model ----
(***************************************************************************)
(* Model of client/src/state/p2p.rs of stronghold.rs: the permission model *)
(* (Permissions, ClientPermissions), the request classifier                *)
(* (AccessRequest::from_request), the firewall evaluator                   *)
(* (AccessRequest::check), the result envelope (ShResult) and the Network  *)
(* actor that installs the firewall rules.                                 *)
(*                                                                         *)
(* Rust values are modelled as follows:                                    *)
(*   Vec<u8> paths        strings                                          *)
(*   HashMap<K, V>        a function whose DOMAIN is the set of keys       *)
(*   Option<T>            None = [some |-> FALSE],                         *)
(*                        Some(v) = [some |-> TRUE, value |-> v]           *)
(*   struct               a record with the struct's field names           *)
(*   enum                 a record with a tag field and the variant's data *)
(*   Vec<T>               a sequence                                       *)
(***************************************************************************)
EXTENDS Naturals, Sequences, FiniteSets

VARIABLES
    \* The policy specifications: building a policy, deciding a request.
    pc,               \* which step of the run comes next
    cp,               \* the ClientPermissions value under construction
    perms,            \* the Permissions value under construction
    last,             \* the last builder call, with its arguments
    request,          \* the ShRequest handed to the firewall
    access,           \* AccessRequest::from_request(request)
    allowed,          \* the verdict of the rule
    \* The Network actor and the transport it configures.
    network_config,   \* NetworkConfig: permissions_default, peer_permissions
    actor,            \* "Uninitialized", "Building", "Running" or "Failed"
    firewall_config,  \* the FirewallConfiguration handed to the transport
    inbound,          \* the inbound request in flight, and how far it got
    outbound,         \* the outbound request in flight, and how far it got
    \* The result envelope.
    native,           \* a handler's native result
    sh_result,        \* the ShResult made from it
    converted         \* the outcome of try_from on sh_result

policyVars == <<pc, cp, perms, last, request, access, allowed>>
netVars == <<network_config, actor, firewall_config, inbound, outbound>>
resultVars == <<native, sh_result, converted>>

vars == <<policyVars, netVars, resultVars>>

(***************************************************************************)
(* Input domains.                                                          *)
(***************************************************************************)
\* Longest procedure batch of a Procedures request.
MaxProcedures == 2
\* Longest byte string and longest list of a result.
MaxLen == 2

ClientPaths == {"alice", "bob"}
Peers == {"X", "Y"}
VaultPaths == {"secrets", "v1"}
RecordPaths == {"r1"}
BOOL == {TRUE, FALSE}

(***************************************************************************)
(* std: Option and HashMap.                                                *)
(***************************************************************************)
None == [some |-> FALSE]
Some(v) == [some |-> TRUE, value |-> v]
unwrap_or(opt, default) == IF opt.some THEN opt.value ELSE default

HashMap_new == [k \in {} |-> FALSE]
get(map, key) == IF key \in DOMAIN map THEN Some(map[key]) ELSE None
insert(map, key, value) ==
    [k \in (DOMAIN map) \cup {key} |-> IF k = key THEN value ELSE map[k]]

(***************************************************************************)
(* ClientPermissions.                                                      *)
(***************************************************************************)
ClientPermissions_default ==
    [ use_vault_default      |-> FALSE,
      use_vault_exceptions   |-> HashMap_new,
      write_vault_default    |-> FALSE,
      write_vault_exceptions |-> HashMap_new,
      clone_vault_default    |-> FALSE,
      clone_vault_exceptions |-> HashMap_new,
      read_store             |-> FALSE,
      write_store            |-> FALSE ]

ClientPermissions_none == ClientPermissions_default

\* all() without the store flags.
ClientPermissions_all_vaults_only ==
    [ ClientPermissions_default EXCEPT
        !.use_vault_default   = TRUE,
        !.write_vault_default = TRUE,
        !.clone_vault_default = TRUE ]

ClientPermissions_all ==
    [ ClientPermissions_default EXCEPT
        !.use_vault_default   = TRUE,
        !.write_vault_default = TRUE,
        !.clone_vault_default = TRUE,
        !.read_store          = TRUE,
        !.write_store         = TRUE ]

with_default_vault_access(self, use_, write, clone_) ==
    [ self EXCEPT
        !.use_vault_default   = use_,
        !.write_vault_default = write,
        !.clone_vault_default = clone_ ]

\* The three inserts all go to use_vault_exceptions, one after the other.
with_vault_access(self, vault_path, use_, write, clone_) ==
    LET s1 == [self EXCEPT !.use_vault_exceptions =
                               insert(self.use_vault_exceptions, vault_path, use_)]
        s2 == [s1 EXCEPT !.use_vault_exceptions =
                               insert(s1.use_vault_exceptions, vault_path, write)]
        s3 == [s2 EXCEPT !.use_vault_exceptions =
                               insert(s2.use_vault_exceptions, vault_path, clone_)]
    IN  s3

with_store_access(self, read, write) ==
    [ self EXCEPT !.read_store = read, !.write_store = write ]

(***************************************************************************)
(* Permissions.                                                            *)
(***************************************************************************)
Permissions_default == [ default |-> None, exceptions |-> HashMap_new ]

allow_none == Permissions_default

allow_all == [ Permissions_default EXCEPT !.default = Some(ClientPermissions_all) ]

with_default_permissions(self, permissions) ==
    [ self EXCEPT !.default = permissions ]

with_client_permissions(self, client_path, permissions) ==
    [ self EXCEPT !.exceptions = insert(self.exceptions, client_path, permissions) ]

(***************************************************************************)
(* Access and AccessRequest: the firewall evaluator.                       *)
(***************************************************************************)
Access_Write(vault_path) == [kind |-> "Write", vault_path |-> vault_path]
Access_Clone(vault_path) == [kind |-> "Clone", vault_path |-> vault_path]
Access_Use(vault_path)   == [kind |-> "Use", vault_path |-> vault_path]
Access_List(vault_path)  == [kind |-> "List", vault_path |-> vault_path]
Access_ReadStore  == [kind |-> "ReadStore"]
Access_WriteStore == [kind |-> "WriteStore"]

\* The closure of check_with_permissions: the match on one Access entry.
access_permitted(a, permissions) ==
    CASE a.kind = "Use" ->
            unwrap_or(get(permissions.use_vault_exceptions, a.vault_path),
                      permissions.use_vault_default)
      [] a.kind = "Write" ->
            unwrap_or(get(permissions.write_vault_exceptions, a.vault_path),
                      permissions.write_vault_default)
      [] a.kind = "Clone" ->
            unwrap_or(get(permissions.clone_vault_exceptions, a.vault_path),
                      permissions.clone_vault_default)
      [] a.kind = "List" ->
            LET use_   == unwrap_or(get(permissions.use_vault_exceptions, a.vault_path),
                                    permissions.use_vault_default)
                write  == unwrap_or(get(permissions.write_vault_exceptions, a.vault_path),
                                    permissions.write_vault_default)
                clone_ == unwrap_or(get(permissions.clone_vault_exceptions, a.vault_path),
                                    permissions.clone_vault_default)
            IN  use_ \/ write \/ clone_
      [] a.kind = "ReadStore"  -> permissions.read_store
      [] a.kind = "WriteStore" -> permissions.write_store

\* check_with_permissions with any() for all().
check_with_permissions_any(self, permissions) ==
    \E i \in 1..Len(self.locations) :
        access_permitted(self.locations[i], permissions)

\* check_with_permissions denying a request that has no Access entry.
check_with_permissions_nonempty(self, permissions) ==
    /\ self.locations # <<>>
    /\ \A i \in 1..Len(self.locations) :
          access_permitted(self.locations[i], permissions)

\* self.locations.iter().all(..)
check_with_permissions(self, permissions) ==
    \A i \in 1..Len(self.locations) :
        access_permitted(self.locations[i], permissions)

\* check with the None arm allowing.
check_none_allows(self, permissions) ==
    LET p == unwrap_or(get(permissions.exceptions, self.client_path),
                       permissions.default)
    IN  IF p.some THEN check_with_permissions(self, p.value) ELSE TRUE

\* check with a None entry of exceptions falling back to the default.
check_flattened(self, permissions) ==
    LET e == get(permissions.exceptions, self.client_path)
        p == IF e.some /\ e.value.some THEN e.value ELSE permissions.default
    IN  IF p.some THEN check_with_permissions(self, p.value) ELSE FALSE

check(self, permissions) ==
    LET p == unwrap_or(get(permissions.exceptions, self.client_path),
                       permissions.default)
    IN  IF p.some THEN check_with_permissions(self, p.value) ELSE FALSE

(***************************************************************************)
(* Requests.  A Location is a vault path and a record path;                *)
(* Location::vault_path returns the former.  Payloads, hints, store keys   *)
(* and lifetimes play no part in the classification and take one value.    *)
(***************************************************************************)
Locations == [vault_path : VaultPaths, record_path : RecordPaths]
vault_path_of(location) == location.vault_path

OptionLocations == {None} \cup {Some(l) : l \in Locations}

\* StrongholdProcedure: RevokeData, GarbageCollect, and the remaining
\* variants, which expose input() and output() as Option<Location>.
StrongholdProcedures ==
         {[variant |-> "RevokeData", location |-> l] : l \in Locations}
    \cup {[variant |-> "GarbageCollect", vault_path |-> v] : v \in VaultPaths}
    \cup {[variant |-> "Other", input |-> i, output |-> o] :
              i \in OptionLocations, o \in OptionLocations}

input(proc)  == proc.input
output(proc) == proc.output

SeqsUpTo(S, n) == UNION {[1..k -> S] : k \in 0..n}

Request_CheckVault  == {[variant |-> "CheckVault", vault_path |-> v] : v \in VaultPaths}
Request_CheckRecord == {[variant |-> "CheckRecord", location |-> l] : l \in Locations}
Request_ListIds     == {[variant |-> "ListIds", vault_path |-> v] : v \in VaultPaths}
Request_WriteToRemoteVault ==
    {[variant |-> "WriteToRemoteVault", location |-> l,
      payload |-> "payload", hint |-> "hint"] : l \in Locations}
Request_RevokeData  == {[variant |-> "RevokeData", location |-> l] : l \in Locations}
Request_ReadFromStore   == {[variant |-> "ReadFromStore", key |-> "key"]}
Request_WriteToStore    ==
    {[variant |-> "WriteToStore", key |-> "key", payload |-> "payload"]}
Request_DeleteFromStore == {[variant |-> "DeleteFromStore", key |-> "key"]}
Request_Procedures(n) ==
    {[variant |-> "Procedures", procedures |-> ps] : ps \in SeqsUpTo(StrongholdProcedures, n)}

\* Every variant of Request but Procedures.
PlainRequests ==
    Request_CheckVault \cup Request_CheckRecord \cup Request_ListIds
        \cup Request_WriteToRemoteVault \cup Request_RevokeData
        \cup Request_ReadFromStore \cup Request_WriteToStore
        \cup Request_DeleteFromStore

ShRequests(requests) == [client_path : ClientPaths, request : requests]

(***************************************************************************)
(* The request classifier.                                                 *)
(***************************************************************************)
\* procedure_access with the output pushed before the input.
procedure_access_output_first(proc) ==
    CASE proc.variant = "RevokeData" ->
            <<Access_Write(vault_path_of(proc.location))>>
      [] proc.variant = "GarbageCollect" ->
            <<Access_Write(proc.vault_path)>>
      [] OTHER ->
            LET a0 == <<>>
                a1 == IF output(proc).some
                      THEN Append(a0, Access_Write(vault_path_of(output(proc).value)))
                      ELSE a0
                a2 == IF input(proc).some
                      THEN Append(a1, Access_Use(vault_path_of(input(proc).value)))
                      ELSE a1
            IN  a2

\* The closure of the flat_map over the procedures of a batch.
procedure_access(proc) ==
    CASE proc.variant = "RevokeData" ->
            <<Access_Write(vault_path_of(proc.location))>>
      [] proc.variant = "GarbageCollect" ->
            <<Access_Write(proc.vault_path)>>
      [] OTHER ->
            LET a0 == <<>>
                a1 == IF input(proc).some
                      THEN Append(a0, Access_Use(vault_path_of(input(proc).value)))
                      ELSE a0
                a2 == IF output(proc).some
                      THEN Append(a1, Access_Write(vault_path_of(output(proc).value)))
                      ELSE a1
            IN  a2

RECURSIVE flat_map_procedures(_)
flat_map_procedures(procedures) ==
    IF procedures = <<>> THEN <<>>
    ELSE procedure_access(Head(procedures)) \o flat_map_procedures(Tail(procedures))

\* from_request with DeleteFromStore in the arm of ReadFromStore.
from_request_delete_reads(rq) ==
    LET client_path == rq.client_path
        r == rq.request
        locations ==
            CASE r.variant \in {"CheckVault", "ListIds"} ->
                    <<Access_List(r.vault_path)>>
              [] r.variant = "CheckRecord" ->
                    <<Access_List(vault_path_of(r.location))>>
              [] r.variant \in {"WriteToRemoteVault", "RevokeData"} ->
                    <<Access_Write(vault_path_of(r.location))>>
              [] r.variant \in {"ReadFromStore", "DeleteFromStore"} -> <<Access_ReadStore>>
              [] r.variant = "WriteToStore" -> <<Access_WriteStore>>
              [] r.variant = "Procedures" ->
                    flat_map_procedures(r.procedures)
    IN  [client_path |-> client_path, locations |-> locations]

from_request(rq) ==
    LET client_path == rq.client_path
        r == rq.request
        locations ==
            CASE r.variant \in {"CheckVault", "ListIds"} ->
                    <<Access_List(r.vault_path)>>
              [] r.variant = "CheckRecord" ->
                    <<Access_List(vault_path_of(r.location))>>
              [] r.variant \in {"WriteToRemoteVault", "RevokeData"} ->
                    <<Access_Write(vault_path_of(r.location))>>
              [] r.variant = "ReadFromStore" -> <<Access_ReadStore>>
              [] r.variant \in {"WriteToStore", "DeleteFromStore"} ->
                    <<Access_WriteStore>>
              [] r.variant = "Procedures" ->
                    flat_map_procedures(r.procedures)
    IN  [client_path |-> client_path, locations |-> locations]

(***************************************************************************)
(* The firewall rule built by Permissions::into_rule, applied to the       *)
(* AccessRequest the transport derives from a request with from_request.   *)
(***************************************************************************)
restriction(self, rq) == check(rq, self)

\* Batches of at most one procedure, written without a length.
ShortBatches == {<<>>} \cup {<<p>> : p \in StrongholdProcedures}
ShortRequests ==
    ShRequests(PlainRequests)
        \cup ShRequests({[variant |-> "Procedures", procedures |-> ps] : ps \in ShortBatches})

\* ClientPermissions values as serde can produce them and the builder
\* cannot: one exception in the write map or in the clone map.
DeserializedClientPermissions ==
         {[base EXCEPT !.write_vault_exceptions = insert(HashMap_new, v, b)] :
              base \in {ClientPermissions_none, ClientPermissions_all},
              v \in VaultPaths, b \in BOOL}
    \cup {[base EXCEPT !.clone_vault_exceptions = insert(HashMap_new, v, b)] :
              base \in {ClientPermissions_none, ClientPermissions_all},
              v \in VaultPaths, b \in BOOL}

NoCall == [op |-> "new"]

\* The values of the variables a specification does not use.
NetIdle ==
    /\ network_config = None
    /\ actor = "Uninitialized"
    /\ firewall_config = None
    /\ inbound = None
    /\ outbound = None

ResultIdle ==
    /\ native = None
    /\ sh_result = None
    /\ converted = None

PolicyIdle ==
    /\ pc = "idle"
    /\ cp = ClientPermissions_none
    /\ perms = Permissions_default
    /\ last = NoCall
    /\ request = None
    /\ access = None
    /\ allowed = FALSE

(***************************************************************************)
(* Actions of the policy specifications.  A run builds a ClientPermissions *)
(* (pc = "client"), then a Permissions around it (pc = "permissions"),     *)
(* then hands one request to the rule (pc = "decided").                    *)
(***************************************************************************)
Building == pc = "client" /\ last.op # "deserialize"

WithDefaultVaultAccess ==
    /\ Building
    /\ \E use_ \in BOOL, write \in BOOL, clone_ \in BOOL :
          /\ cp' = with_default_vault_access(cp, use_, write, clone_)
          /\ last' = [op |-> "with_default_vault_access"]
    /\ UNCHANGED <<pc, perms, request, access, allowed, netVars, resultVars>>

WithVaultAccess ==
    /\ Building
    /\ \E vault_path \in VaultPaths, use_ \in BOOL, write \in BOOL, clone_ \in BOOL :
          /\ cp' = with_vault_access(cp, vault_path, use_, write, clone_)
          /\ last' = [op |-> "with_vault_access", vault_path |-> vault_path,
                      use_ |-> use_, write |-> write, clone_ |-> clone_,
                      self |-> cp]
    /\ UNCHANGED <<pc, perms, request, access, allowed, netVars, resultVars>>

WithStoreAccess ==
    /\ Building
    /\ \E read \in BOOL, write \in BOOL :
          /\ cp' = with_store_access(cp, read, write)
          /\ last' = [op |-> "with_store_access"]
    /\ UNCHANGED <<pc, perms, request, access, allowed, netVars, resultVars>>

Deserialize ==
    /\ Building
    /\ cp' \in DeserializedClientPermissions
    /\ last' = [op |-> "deserialize"]
    /\ UNCHANGED <<pc, perms, request, access, allowed, netVars, resultVars>>

AllowNone ==
    /\ pc = "client"
    /\ perms' = allow_none
    /\ pc' = "permissions"
    /\ last' = [op |-> "allow_none"]
    /\ UNCHANGED <<cp, request, access, allowed, netVars, resultVars>>

AllowAll ==
    /\ pc = "client"
    /\ perms' = allow_all
    /\ pc' = "permissions"
    /\ last' = [op |-> "allow_all"]
    /\ UNCHANGED <<cp, request, access, allowed, netVars, resultVars>>

WithDefaultPermissions ==
    /\ pc = "permissions"
    /\ \/ perms' = with_default_permissions(perms, None)
       \/ perms' = with_default_permissions(perms, Some(cp))
    /\ last' = [op |-> "with_default_permissions"]
    /\ UNCHANGED <<pc, cp, request, access, allowed, netVars, resultVars>>

WithClientPermissions ==
    /\ pc = "permissions"
    /\ \E client_path \in ClientPaths :
          /\ \/ perms' = with_client_permissions(perms, client_path, None)
             \/ perms' = with_client_permissions(perms, client_path, Some(cp))
          /\ last' = [op |-> "with_client_permissions", client_path |-> client_path]
    /\ UNCHANGED <<pc, cp, request, access, allowed, netVars, resultVars>>

Rule(requests) ==
    /\ pc = "permissions"
    /\ \E rq \in requests :
          /\ request' = rq
          /\ access' = from_request(rq)
          /\ allowed' = restriction(perms, from_request(rq))
    /\ pc' = "decided"
    /\ last' = [op |-> "rule"]
    /\ UNCHANGED <<cp, perms, netVars, resultVars>>

RuleRequest == Rule(ShortRequests)

(***************************************************************************)
(* SpecPermissions: every Permissions the builders reach, against every    *)
(* request with at most one procedure.                                     *)
(***************************************************************************)
InitPermissions ==
    /\ pc = "client"
    /\ cp \in {ClientPermissions_none, ClientPermissions_all}
    /\ perms = Permissions_default
    /\ last = NoCall
    /\ request = None
    /\ access = None
    /\ allowed = FALSE
    /\ NetIdle
    /\ ResultIdle

NextPermissions ==
    \/ WithDefaultVaultAccess
    \/ WithVaultAccess
    \/ WithStoreAccess
    \/ Deserialize
    \/ AllowNone
    \/ AllowAll
    \/ WithDefaultPermissions
    \/ WithClientPermissions
    \/ RuleRequest

SpecPermissions == InitPermissions /\ [][NextPermissions]_vars

(***************************************************************************)
(* SpecClassify: every request, batches of up to MaxProcedures procedures  *)
(* included, against a few Permissions.                                    *)
(***************************************************************************)
AllRequests == ShRequests(PlainRequests \cup Request_Procedures(MaxProcedures))

PermissionFixtures ==
    { allow_none,
      allow_all,
      with_client_permissions(allow_none, "alice", Some(ClientPermissions_all)),
      with_client_permissions(allow_all, "alice", None),
      with_default_permissions(allow_none,
          Some(with_default_vault_access(ClientPermissions_none, TRUE, FALSE, FALSE))),
      with_default_permissions(allow_none,
          Some(with_vault_access(ClientPermissions_all, "v1", FALSE, FALSE, FALSE))) }

InitClassify ==
    /\ pc = "permissions"
    /\ cp = ClientPermissions_none
    /\ perms \in PermissionFixtures
    /\ last = NoCall
    /\ request = None
    /\ access = None
    /\ allowed = FALSE
    /\ NetIdle
    /\ ResultIdle

RuleAny == Rule(AllRequests)

NextClassify == RuleAny

SpecClassify == InitClassify /\ [][NextClassify]_vars

(***************************************************************************)
(* The evaluation rule as the documentation states it: the client's entry  *)
(* when there is one, the default otherwise; per capability, the exception *)
(* of the vault path when there is one, the default otherwise.             *)
(***************************************************************************)
Decided == pc = "decided"

ResolvedClient(P, client_path) ==
    IF client_path \in DOMAIN P.exceptions THEN P.exceptions[client_path] ELSE P.default

Lookup(exceptions, default, vault_path) ==
    IF vault_path \in DOMAIN exceptions THEN exceptions[vault_path] ELSE default

UseAt(p, v)   == Lookup(p.use_vault_exceptions, p.use_vault_default, v)
WriteAt(p, v) == Lookup(p.write_vault_exceptions, p.write_vault_default, v)
CloneAt(p, v) == Lookup(p.clone_vault_exceptions, p.clone_vault_default, v)

Resolves(a, p) ==
    \/ a.kind = "Use" /\ UseAt(p, a.vault_path)
    \/ a.kind = "Write" /\ WriteAt(p, a.vault_path)
    \/ a.kind = "Clone" /\ CloneAt(p, a.vault_path)
    \/ a.kind = "List" /\ (UseAt(p, a.vault_path) \/ WriteAt(p, a.vault_path)
                              \/ CloneAt(p, a.vault_path))
    \/ a.kind = "ReadStore" /\ p.read_store
    \/ a.kind = "WriteStore" /\ p.write_store

DeniedEntries(locations, p) ==
    {i \in 1..Len(locations) : ~Resolves(locations[i], p)}

\* C1: the rule allows a request exactly when the ClientPermissions resolved
\* for its client path is present and every Access entry of its
\* classification resolves to true under it; one denied entry denies the
\* whole request.
C1_CheckIffEveryEntryResolves ==
    Decided =>
        LET r == ResolvedClient(perms, request.client_path)
        IN  /\ access = from_request(request)
            /\ allowed <=> (r.some /\ DeniedEntries(access.locations, r.value) = {})

\* A decided request of two entries, the first granted and the second not.
C1_Witness ==
    /\ Decided
    /\ ResolvedClient(perms, request.client_path).some
    /\ Len(access.locations) = 2
    /\ DeniedEntries(access.locations,
                     ResolvedClient(perms, request.client_path).value) = {2}
    /\ ~allowed

\* C2: under Permissions::allow_none() the rule denies every request,
\* whatever its client path and vault path, a Procedures request with an
\* empty classification too.
C2_AllowNoneDeniesAll ==
    (Decided /\ perms = allow_none) => ~allowed

\* An empty batch decided under allow_none().
C2_Witness ==
    /\ Decided
    /\ perms = allow_none
    /\ request.request.variant = "Procedures"
    /\ access.locations = <<>>
    /\ ~allowed

\* C3: under Permissions::allow_all() the rule allows every request,
\* whatever its client path and vault path.
C3_AllowAllAllowsAll ==
    (Decided /\ perms = allow_all) => allowed

\* A store write decided under allow_all().
C3_Witness ==
    /\ Decided
    /\ perms = allow_all
    /\ request.request.variant = "WriteToStore"
    /\ allowed

\* C4: a client path whose entry in exceptions is None is denied whatever
\* the default is; a client path with no entry is decided by the default
\* alone.
C4_NoneEntryDeniesNoEntryDefaults ==
    Decided =>
        LET c == request.client_path
        IN  /\ (c \in DOMAIN perms.exceptions /\ ~perms.exceptions[c].some) => ~allowed
            /\ c \notin DOMAIN perms.exceptions =>
                   (allowed <=> (perms.default.some
                                   /\ DeniedEntries(access.locations, perms.default.value) = {}))

\* alice is mapped to None over a default of ClientPermissions::all(): her
\* request is denied.
C4_Witness ==
    /\ Decided
    /\ perms.default = Some(ClientPermissions_all)
    /\ "alice" \in DOMAIN perms.exceptions
    /\ perms.exceptions["alice"] = None
    /\ request.client_path = "alice"
    /\ ~allowed

\* C5: after with_vault_access(p, u, w, c) Use on p resolves to u, Write on
\* p to w and Clone on p to c, and every other vault path resolves as it did
\* before the call.
C5_VaultExceptionPerCapability ==
    (pc = "client" /\ last.op = "with_vault_access") =>
        /\ access_permitted(Access_Use(last.vault_path), cp) = last.use_
        /\ access_permitted(Access_Write(last.vault_path), cp) = last.write
        /\ access_permitted(Access_Clone(last.vault_path), cp) = last.clone_
        /\ \A v \in VaultPaths \ {last.vault_path} :
              /\ access_permitted(Access_Use(v), cp) = access_permitted(Access_Use(v), last.self)
              /\ access_permitted(Access_Write(v), cp) = access_permitted(Access_Write(v), last.self)
              /\ access_permitted(Access_Clone(v), cp) = access_permitted(Access_Clone(v), last.self)

\* C6: a request that is not a Procedures request is classified to exactly
\* one Access entry under the envelope's client path: List on the vault path
\* for CheckVault, ListIds and CheckRecord, Write on the location's vault
\* path for WriteToRemoteVault and RevokeData, ReadStore alone for
\* ReadFromStore, WriteStore alone for WriteToStore and DeleteFromStore.
C6_PlainRequestsOneEntry ==
    (Decided /\ request.request.variant # "Procedures") =>
        LET r == request.request
        IN  /\ access.client_path = request.client_path
            /\ Len(access.locations) = 1
            /\ r.variant \in {"CheckVault", "ListIds"} =>
                   access.locations[1] = [kind |-> "List", vault_path |-> r.vault_path]
            /\ r.variant = "CheckRecord" =>
                   access.locations[1] = [kind |-> "List", vault_path |-> r.location.vault_path]
            /\ r.variant \in {"WriteToRemoteVault", "RevokeData"} =>
                   access.locations[1] = [kind |-> "Write", vault_path |-> r.location.vault_path]
            /\ r.variant = "ReadFromStore" =>
                   access.locations = <<[kind |-> "ReadStore"]>>
            /\ r.variant \in {"WriteToStore", "DeleteFromStore"} =>
                   access.locations = <<[kind |-> "WriteStore"]>>

\* A classified DeleteFromStore request.
C6_Witness ==
    /\ Decided
    /\ request.request.variant = "DeleteFromStore"
    /\ access = [client_path |-> request.client_path,
                 locations |-> <<[kind |-> "WriteStore"]>>]

\* What one procedure needs: Write on the target of a RevokeData or a
\* GarbageCollect; else Use on the input's vault, then Write on the output's.
EntriesOf(proc) ==
    IF proc.variant = "RevokeData" THEN <<[kind |-> "Write", vault_path |-> proc.location.vault_path]>>
    ELSE IF proc.variant = "GarbageCollect" THEN <<[kind |-> "Write", vault_path |-> proc.vault_path]>>
    ELSE (IF proc.input.some
          THEN <<[kind |-> "Use", vault_path |-> proc.input.value.vault_path]>> ELSE <<>>)
         \o (IF proc.output.some
             THEN <<[kind |-> "Write", vault_path |-> proc.output.value.vault_path]>> ELSE <<>>)

RECURSIVE EntriesUpTo(_, _)
EntriesUpTo(procedures, n) ==
    IF n = 0 THEN <<>>
    ELSE EntriesUpTo(procedures, n - 1) \o EntriesOf(procedures[n])

\* C7: a Procedures request is classified to the concatenation, in
\* procedure order, of the entries of its procedures, and it is denied as a
\* whole as soon as one of them is denied.
C7_BatchConcatenatesEntries ==
    (Decided /\ request.request.variant = "Procedures") =>
        LET ps == request.request.procedures
            r == ResolvedClient(perms, request.client_path)
        IN  /\ access.client_path = request.client_path
            /\ access.locations = EntriesUpTo(ps, Len(ps))
            /\ (r.some /\ DeniedEntries(access.locations, r.value) # {}) => ~allowed

\* A batch of two procedures: Use on one vault is granted, Write on another
\* is not, and the batch is denied.
C7_Witness ==
    /\ Decided
    /\ request.request.variant = "Procedures"
    /\ Len(request.request.procedures) = 2
    /\ ResolvedClient(perms, request.client_path).some
    /\ \E i, j \in 1..Len(access.locations) :
          /\ access.locations[i].kind = "Use"
          /\ access.locations[j].kind = "Write"
          /\ access.locations[i].vault_path # access.locations[j].vault_path
          /\ Resolves(access.locations[i], ResolvedClient(perms, request.client_path).value)
          /\ ~Resolves(access.locations[j], ResolvedClient(perms, request.client_path).value)
    /\ ~allowed

(***************************************************************************)
(* The Network actor.  Network::new turns the NetworkConfig into the       *)
(* FirewallConfiguration of the transport: a default pair of rules and one *)
(* pair per peer of peer_permissions.  Timeouts, connection limits, mdns,  *)
(* relay and addresses are handed to the transport builder unchanged and   *)
(* are left out.                                                           *)
(***************************************************************************)
Rule_AllowAll == [rule |-> "AllowAll"]
Rule_Restricted(permissions) == [rule |-> "Restricted", restriction |-> permissions]

into_rule(self) == Rule_Restricted(self)

\* Every pair of rules, the peers' too, built from permissions_default.
firewall_configuration_default_for_all(config) ==
    LET firewall_default ==
            [ inbound  |-> Some(into_rule(config.permissions_default)),
              outbound |-> Some(Rule_AllowAll) ]
        peer_permissions ==
            [ peer \in DOMAIN config.peer_permissions |->
                [ inbound  |-> Some(into_rule(config.permissions_default)),
                  outbound |-> Some(Rule_AllowAll) ] ]
    IN  [ default |-> firewall_default, peer_rules |-> peer_permissions ]

\* The default pair with inbound and outbound exchanged.
firewall_configuration_default_swapped(config) ==
    LET firewall_default ==
            [ inbound  |-> Some(Rule_AllowAll),
              outbound |-> Some(into_rule(config.permissions_default)) ]
        peer_permissions ==
            [ peer \in DOMAIN config.peer_permissions |->
                [ inbound  |-> Some(into_rule(config.peer_permissions[peer])),
                  outbound |-> Some(Rule_AllowAll) ] ]
    IN  [ default |-> firewall_default, peer_rules |-> peer_permissions ]

firewall_configuration(config) ==
    LET firewall_default ==
            [ inbound  |-> Some(into_rule(config.permissions_default)),
              outbound |-> Some(Rule_AllowAll) ]
        peer_permissions ==
            [ peer \in DOMAIN config.peer_permissions |->
                [ inbound  |-> Some(into_rule(config.peer_permissions[peer])),
                  outbound |-> Some(Rule_AllowAll) ] ]
    IN  [ default |-> firewall_default, peer_rules |-> peer_permissions ]

\* NetworkConfig::new(default_permissions): no peer has permissions of its own.
NetworkConfig_new(default_permissions) ==
    [ permissions_default |-> default_permissions, peer_permissions |-> HashMap_new ]

(***************************************************************************)
(* The transport (crate p2p), as the documentation describes it: the rules *)
(* of the remote peer when it has any, the default rules otherwise; a      *)
(* request is classified with from_request and handed to the rule of its   *)
(* direction before it goes any further.                                   *)
(***************************************************************************)
effective_rule(config, peer, direction) ==
    LET own == IF peer \in DOMAIN config.peer_rules
               THEN config.peer_rules[peer][direction]
               ELSE None
    IN  IF own.some THEN own.value ELSE config.default[direction].value

rule_permits(rule, rq) ==
    CASE rule.rule = "AllowAll" -> TRUE
      [] rule.rule = "Restricted" -> restriction(rule.restriction, from_request(rq))

NetworkPermissionFixtures ==
    { allow_none,
      allow_all,
      with_client_permissions(allow_none, "alice", Some(ClientPermissions_all)),
      with_client_permissions(allow_all, "alice", None) }

PeerPermissions ==
    UNION {[S -> NetworkPermissionFixtures] : S \in SUBSET Peers}

NetworkConfigs ==
    [ permissions_default : NetworkPermissionFixtures, peer_permissions : PeerPermissions ]

Quiet == inbound = None /\ outbound = None

\* Network::new up to builder.build().await: the FirewallConfiguration is
\* made and handed to the transport builder, and the function suspends.
\* There is no actor yet.
Network_new ==
    /\ actor = "Uninitialized"
    /\ firewall_config' = Some(firewall_configuration(network_config))
    /\ actor' = "Building"
    /\ UNCHANGED <<network_config, inbound, outbound, policyVars, resultVars>>

\* Network::new resumes with Ok: the actor value is made.
Network_new_Ok ==
    /\ actor = "Building"
    /\ actor' = "Running"
    /\ UNCHANGED <<network_config, firewall_config, inbound, outbound, policyVars, resultVars>>

\* Network::new resumes with Err: builder.build() failed, there is no actor.
Network_new_Err ==
    /\ actor = "Building"
    /\ actor' = "Failed"
    /\ UNCHANGED <<network_config, firewall_config, inbound, outbound, policyVars, resultVars>>

\* The transport holds its configuration and has not failed; it may run
\* before Network::new has resumed.
TransportUp == actor \in {"Building", "Running"}

\* A remote peer sends a request.
ReceiveRequest ==
    /\ TransportUp
    /\ Quiet
    /\ \E peer \in Peers, rq \in ShortRequests :
          inbound' = [status |-> "received", peer |-> peer, request |-> rq]
    /\ UNCHANGED <<network_config, actor, firewall_config, outbound, policyVars, resultVars>>

\* The transport applies the inbound rule: the request goes to the inbound
\* channel or is rejected.
FirewallInbound ==
    /\ TransportUp
    /\ inbound # None
    /\ inbound.status = "received"
    /\ LET rule == effective_rule(firewall_config.value, inbound.peer, "inbound")
       IN  inbound' = [inbound EXCEPT !.status =
                          IF rule_permits(rule, inbound.request)
                          THEN "admitted" ELSE "rejected"]
    /\ UNCHANGED <<network_config, actor, firewall_config, outbound, policyVars, resultVars>>

\* The actor takes the request from the channel and forwards it to the
\* handler of its client path.
Dispatch ==
    /\ actor = "Running"
    /\ inbound # None
    /\ inbound.status = "admitted"
    /\ inbound' = [inbound EXCEPT !.status = "dispatched"]
    /\ UNCHANGED <<network_config, actor, firewall_config, outbound, policyVars, resultVars>>

\* The reply, or the rejection, is delivered to the requester.
Respond ==
    /\ TransportUp
    /\ inbound # None
    /\ inbound.status \in {"dispatched", "rejected"}
    /\ inbound' = None
    /\ UNCHANGED <<network_config, actor, firewall_config, outbound, policyVars, resultVars>>

\* Application code submits a request for a remote peer.
SendRequest ==
    /\ actor = "Running"
    /\ Quiet
    /\ \E peer \in Peers, rq \in ShortRequests :
          outbound' = [status |-> "submitted", peer |-> peer, request |-> rq]
    /\ UNCHANGED <<network_config, actor, firewall_config, inbound, policyVars, resultVars>>

\* The transport applies the outbound rule: the request is sent or rejected.
FirewallOutbound ==
    /\ TransportUp
    /\ outbound # None
    /\ outbound.status = "submitted"
    /\ LET rule == effective_rule(firewall_config.value, outbound.peer, "outbound")
       IN  outbound' = [outbound EXCEPT !.status =
                           IF rule_permits(rule, outbound.request)
                           THEN "sent" ELSE "rejected"]
    /\ UNCHANGED <<network_config, actor, firewall_config, inbound, policyVars, resultVars>>

\* The response of the remote peer, or the rejection, reaches the caller.
ReceiveResponse ==
    /\ TransportUp
    /\ outbound # None
    /\ outbound.status \in {"sent", "rejected"}
    /\ outbound' = None
    /\ UNCHANGED <<network_config, actor, firewall_config, inbound, policyVars, resultVars>>

Init ==
    /\ network_config \in NetworkConfigs
    /\ actor = "Uninitialized"
    /\ firewall_config = None
    /\ inbound = None
    /\ outbound = None
    /\ PolicyIdle
    /\ ResultIdle

Next ==
    \/ Network_new
    \/ Network_new_Ok
    \/ Network_new_Err
    \/ ReceiveRequest
    \/ FirewallInbound
    \/ Dispatch
    \/ Respond
    \/ SendRequest
    \/ FirewallOutbound
    \/ ReceiveResponse

Spec == Init /\ [][Next]_vars

\* The Permissions the configuration holds for a peer.
ApplicablePermissions(config, peer) ==
    IF peer \in DOMAIN config.peer_permissions
    THEN config.peer_permissions[peer]
    ELSE config.permissions_default

\* The documented evaluation of a request under a Permissions.
Permitted(P, rq) ==
    LET r == ResolvedClient(P, rq.client_path)
    IN  r.some /\ DeniedEntries(from_request(rq).locations, r.value) = {}

InboundDecided == inbound # None /\ inbound.status # "received"
InboundPassed == inbound # None /\ inbound.status \in {"admitted", "dispatched"}
OutboundDecided == outbound # None /\ outbound.status # "submitted"

ScenarioConfig ==
    [ permissions_default |-> allow_none,
      peer_permissions |->
          insert(HashMap_new, "X",
                 with_client_permissions(allow_none, "alice", Some(ClientPermissions_all))) ]

Secrets == [vault_path |-> "secrets", record_path |-> "r1"]
WriteSecrets(client_path) ==
    [ client_path |-> client_path,
      request |-> [variant |-> "WriteToRemoteVault", location |-> Secrets,
                   payload |-> "payload", hint |-> "hint"] ]
WriteStore(client_path) ==
    [ client_path |-> client_path,
      request |-> [variant |-> "WriteToStore", key |-> "key", payload |-> "payload"] ]
ListSecrets(client_path) ==
    [ client_path |-> client_path,
      request |-> [variant |-> "ListIds", vault_path |-> "secrets"] ]

\* C8: an inbound request of a peer with an entry in peer_permissions is
\* decided by that entry alone, a request of any other peer by
\* permissions_default alone.  With a default of allow_none() and X granted
\* ClientPermissions::all() for alice: X's vault write, store write and
\* list as alice pass, X's vault write as bob is rejected, and so is every
\* one of these from another peer.
C8_PerPeerRules ==
    InboundDecided =>
        /\ InboundPassed <=>
               Permitted(ApplicablePermissions(network_config, inbound.peer), inbound.request)
        /\ network_config = ScenarioConfig =>
              /\ (inbound.peer = "X" /\ inbound.request \in
                    {WriteSecrets("alice"), WriteStore("alice"), ListSecrets("alice")})
                     => InboundPassed
              /\ (inbound.peer = "X" /\ inbound.request = WriteSecrets("bob"))
                     => ~InboundPassed
              /\ (inbound.peer # "X" /\ inbound.request \in
                    {WriteSecrets("alice"), WriteSecrets("bob"),
                     WriteStore("alice"), ListSecrets("alice")})
                     => ~InboundPassed

\* In the scenario, X's vault write as alice has reached the handler.
C8_Witness ==
    /\ network_config = ScenarioConfig
    /\ inbound # None
    /\ inbound.peer = "X"
    /\ inbound.request = WriteSecrets("alice")
    /\ inbound.status = "dispatched"

\* C10 as stated: the evaluator of the applicable Permissions gates both
\* directions; a request it denies is neither dispatched to a handler
\* (inbound) nor sent to the remote peer (outbound).
C10_BothDirectionsGated ==
    /\ InboundDecided =>
          (InboundPassed <=>
              Permitted(ApplicablePermissions(network_config, inbound.peer), inbound.request))
    /\ OutboundDecided =>
          (outbound.status = "sent" <=>
              Permitted(ApplicablePermissions(network_config, outbound.peer), outbound.request))

\* C10 as the code has it: the evaluator of the applicable Permissions gates
\* the inbound direction only.  An inbound request it denies is rejected
\* and never dispatched; the outbound rules are Rule::AllowAll for the
\* default and for every peer, so every outbound request is sent.
C10_InboundGatedOutboundAllowAll ==
    /\ InboundDecided =>
          (InboundPassed <=>
              Permitted(ApplicablePermissions(network_config, inbound.peer), inbound.request))
    /\ OutboundDecided => outbound.status = "sent"
    /\ firewall_config # None =>
          /\ firewall_config.value.default.outbound = Some(Rule_AllowAll)
          /\ \A peer \in DOMAIN firewall_config.value.peer_rules :
                firewall_config.value.peer_rules[peer].outbound = Some(Rule_AllowAll)

\* An inbound request the evaluator denies has been rejected.
C10_Witness ==
    /\ inbound # None
    /\ inbound.status = "rejected"
    /\ ~Permitted(ApplicablePermissions(network_config, inbound.peer), inbound.request)

(***************************************************************************)
(* The result envelope.  A native result is a record of its Rust type and  *)
(* its value; Ok and Err build a Result.  A String is [string |-> text]    *)
(* and a RecordError is [record_error |-> variant], so that the two never  *)
(* compare equal.                                                          *)
(***************************************************************************)
Ok(v) == [ok |-> TRUE, value |-> v]
Err(e) == [ok |-> FALSE, error |-> e]
Unit == <<>>

String(text) == [string |-> text]
RecordErrors == {[record_error |-> "RecordNotFound"], [record_error |-> "InvalidKey"]}
\* Display of a RecordError: the text of the error, as a String.
to_string(e) == String(e.record_error)
\* inner.map_err(|e| e.to_string())
map_err_to_string(result) == IF result.ok THEN result ELSE Err(to_string(result.error))

Bytes == SeqsUpTo({0, 255}, MaxLen)
RecordEntries == [id : {"id1", "id2"}, hint : {"hint"}]
ProcedureOutputs == SeqsUpTo({"output"}, MaxLen)
ProcedureErrors == {"procedure_error"}

T_Unit == "()"
T_Bool == "bool"
T_Data == "Option<Vec<u8>>"
T_ListIds == "Vec<(RecordId, RecordHint)>"
T_Proc == "Result<Vec<ProcedureOutput>, ProcedureError>"
T_RecordResult == "Result<(), RecordError>"
T_RemoteRecordResult == "Result<(), RemoteRecordError>"

Typed(type, v) == [type |-> type, value |-> v]

\* The native results the handlers return, one set per type.
NativeResults ==
    << {Typed(T_Unit, Unit)},
       {Typed(T_Bool, b) : b \in BOOL},
       {Typed(T_Data, None)} \cup {Typed(T_Data, Some(d)) : d \in Bytes},
       {Typed(T_ListIds, l) : l \in SeqsUpTo(RecordEntries, MaxLen)},
       {Typed(T_Proc, Ok(o)) : o \in ProcedureOutputs}
           \cup {Typed(T_Proc, Err(e)) : e \in ProcedureErrors},
       {Typed(T_RecordResult, Ok(Unit))}
           \cup {Typed(T_RecordResult, Err(e)) : e \in RecordErrors} >>

\* The native types a caller converts an ShResult back to.
TargetTypes == {T_Unit, T_Bool, T_Data, T_ListIds, T_Proc, T_RemoteRecordResult}

\* sh_result_mapping!(ShResult::$variant => $inner): the variant of a type.
variant_of(type) ==
    CASE type = T_Unit -> "Empty"
      [] type = T_Bool -> "Bool"
      [] type = T_Data -> "Data"
      [] type = T_ListIds -> "ListIds"
      [] type = T_Proc -> "Proc"
      [] type \in {T_RecordResult, T_RemoteRecordResult} -> "WriteRemoteVault"

\* The From impls: those of sh_result_mapping! and From<Result<(), RecordError>>.
ShResult_from(i) ==
    IF i.type = T_RecordResult
    THEN [variant |-> "WriteRemoteVault", inner |-> map_err_to_string(i.value)]
    ELSE [variant |-> variant_of(i.type), inner |-> i.value]

\* try_from with the Data impl answering Ok(None) for another variant.
try_from_data_defaults(t, type) ==
    IF t.variant = variant_of(type) THEN Ok(Typed(type, t.inner))
    ELSE IF type = T_Data THEN Ok(Typed(type, None))
    ELSE Err(Unit)

\* The TryFrom<ShResult> impls: Ok of the inner value when the variant is
\* the one of the type, Err(()) otherwise.
try_from(t, type) ==
    IF t.variant = variant_of(type) THEN Ok(Typed(type, t.inner)) ELSE Err(Unit)

\* A handler's result is wrapped for the reply.
Into ==
    /\ native # None
    /\ sh_result = None
    /\ sh_result' = ShResult_from(native)
    /\ UNCHANGED <<native, converted, policyVars, netVars>>

\* The caller converts the reply to the type it expects.
TryFrom ==
    /\ sh_result # None
    /\ converted = None
    /\ \E type \in TargetTypes :
          converted' = [target |-> type, result |-> try_from(sh_result, type)]
    /\ UNCHANGED <<native, sh_result, policyVars, netVars>>

InitResult ==
    /\ \E i \in 1..Len(NativeResults) : native \in NativeResults[i]
    /\ sh_result = None
    /\ converted = None
    /\ PolicyIdle
    /\ NetIdle

NextResult ==
    \/ Into
    \/ TryFrom

SpecResult == InitResult /\ [][NextResult]_vars

\* The type a native result is converted back to by the caller of its
\* operation.
TargetOf(type) == IF type = T_RecordResult THEN T_RemoteRecordResult ELSE type

Converted == converted # None

\* C9 as stated: converting a native result into ShResult and back to its
\* type gives Ok of an equal value; converting to a type of another variant
\* gives Err(()).
C9_RoundTripLossless ==
    Converted =>
        IF converted.target = TargetOf(native.type)
        THEN converted.result.ok /\ converted.result.value.value = native.value
        ELSE converted.result = Err(Unit)

\* C9 as the code has it: (), bool, Option<bytes>, the id list and the
\* procedure result come back as Ok of an equal value of the same type; the
\* vault-write result goes in as Result<(), RecordError> and comes back as
\* Result<(), RemoteRecordError>, Ok(()) as Ok(()) and Err(e) as
\* Err(e.to_string()); converting to a type of another variant gives Err(()).
C9_RoundTripButRecordError ==
    Converted =>
        IF converted.target # TargetOf(native.type)
        THEN converted.result = Err(Unit)
        ELSE /\ converted.result.ok
             /\ converted.result.value.type = converted.target
             /\ IF native.type # T_RecordResult
                THEN converted.result.value = native
                ELSE IF native.value.ok
                THEN converted.result.value.value = Ok(Unit)
                ELSE converted.result.value.value = Err(to_string(native.value.error))

\* A vault-write error has made the round trip.
C9_Witness ==
    /\ Converted
    /\ native.type = T_RecordResult
    /\ ~native.value.ok
    /\ converted.target = T_RemoteRecordResult
    /\ converted.result.ok
    /\ ~converted.result.value.value.ok

\* C11: a request whose classification has no Access entry is allowed
\* exactly when the ClientPermissions resolved for its client path is
\* present, whatever its booleans and exceptions are: it is allowed under
\* Some(ClientPermissions::none()) and denied only under None.
C11_EmptyClassificationNeedsPresence ==
    (Decided /\ access.locations = <<>>) =>
        /\ request.request.variant = "Procedures"
        /\ \A i \in 1..Len(request.request.procedures) :
              /\ request.request.procedures[i].variant = "Other"
              /\ ~request.request.procedures[i].input.some
              /\ ~request.request.procedures[i].output.some
        /\ allowed <=> ResolvedClient(perms, request.client_path).some
        /\ ResolvedClient(perms, request.client_path) = Some(ClientPermissions_none)
               => allowed

\* A procedure with neither input nor output is allowed under
\* Some(ClientPermissions::none()), which denies every Access entry.
C11_Witness ==
    /\ Decided
    /\ request.request.variant = "Procedures"
    /\ Len(request.request.procedures) = 1
    /\ access.locations = <<>>
    /\ ResolvedClient(perms, request.client_path) = Some(ClientPermissions_none)
    /\ allowed

====
